---- MODULE Spec2Model ----
(***************************************************************************)
(* The Reactor of nuclear-js (src/src/Reactor.js): a store holding an      *)
(* Immutable.Map of sub-states keyed by core id, a registry of cores, and  *)
(* the cycle loop that folds a batch of messages through every registered  *)
(* core and writes the resulting tree to the output stream.                *)
(***************************************************************************)
EXTENDS Integers, Sequences, FiniteSets, TLC

(***************************************************************************)
(* Bounds of the exploration.                                              *)
(***************************************************************************)
\* longest message batch handed to cycle
MaxBatch == 2
\* number of cycle invocations explored in one behaviour
MaxCycles == 1

(***************************************************************************)
(* JavaScript values.  Every value is a record [k, n]: k is the kind and n *)
(* the content.  A mapping (plain object or Immutable.Map) holds at most   *)
(* the one field `total`; n = Empty is the mapping with no field.  A       *)
(* string is the concatenation built by JavaScript's `+`, n its code.      *)
(***************************************************************************)
Empty == 0 - 1
Undefined == [k |-> "undef", n |-> 0]
Num(n) == [k |-> "num", n |-> n]
Str(n) == [k |-> "str", n |-> n]
Obj(n) == [k |-> "obj", n |-> n]
Map(n) == [k |-> "map", n |-> n]
\* the value thrown out of a react call, as seen by the caller
Thrown == [k |-> "throw", n |-> 0]

\* payloads carried by the messages of the model
Payloads == {1, 2}

\* JavaScript truthiness, as used by `||` and `if`
Truthy(v) ==
  CASE v.k = "undef" -> FALSE
    [] v.k = "num" -> v.n # 0
    [] OTHER -> TRUE

\* Immutable.fromJS: plain objects become Immutable.Maps, scalars and
\* values that are already persistent are returned as they are
fromJS(v) == IF v.k = "obj" THEN Map(v.n) ELSE v

\* toJS of immutable-helpers: the deep conversion to a plain value
toJS(v) == IF v.k = "map" THEN Obj(v.n) ELSE v

\* Only Immutable collections carry an asImmutable method; calling it on
\* a number, a string, a plain object or undefined raises a TypeError
HasAsImmutable(v) == v.k = "map"

\* Map#asImmutable on a persistent map returns the receiver
asImmutable(v) == v

\* JavaScript's binary +: numeric addition on two numbers, string
\* concatenation as soon as one operand is an object
JsAdd(a, p) ==
  IF a.k = "num" THEN Num(a.n + p)
  ELSE Str(10 * (a.n + 1) + p)

(***************************************************************************)
(* Cores.  A core is [cls, init, react]: cls tells whether the object is   *)
(* an instance of ReactorCore, init is what initialize() returns and react *)
(* names its transition function.                                          *)
(***************************************************************************)
\* keeps {total: n}, n counted modulo 3; SET replaces the total,
\* INCREMENT adds to it
Totals == [cls |-> "ReactorCore", init |-> Obj(0), react |-> "totals"]
\* the counter of the documentation: initialize() -> 0, react -> state + n
Counter == [cls |-> "ReactorCore", init |-> Num(0), react |-> "sum"]
\* initialize() returns nothing; react raises on BOOM
Fragile == [cls |-> "ReactorCore", init |-> Undefined, react |-> "fragile"]
\* a plain object that is not an instance of ReactorCore
Plain == [cls |-> "Object", init |-> Obj(0), react |-> "totals"]

Cores == {Totals, Counter, Fragile, Plain}

\* a core that dispatches from inside react: handed PING it writes the
\* message Dispatched to the reactor's input stream, then returns its
\* state; it returns its state for every other message
Chatty == [cls |-> "ReactorCore", init |-> Obj(Empty), react |-> "chatty"]
\* a react with a return for SET only: it returns nothing for the rest
Sloppy == [cls |-> "ReactorCore", init |-> Obj(0), react |-> "sloppy"]

Dispatched == [type |-> "INCREMENT", payload |-> 1]

\* react of this core writes to the input stream when handed this message
Dispatches(core, msg) == core.react = "chatty" /\ msg.type = "PING"

\* core.initialize()
initialize(core) == core.init

\* the operand `|| {}` of attachCore: a falsy result is replaced by {}
OrEmptyObject(v) == IF Truthy(v) THEN v ELSE Obj(Empty)

\* the sub-state attachCore stores for a core:
\* Immutable.fromJS(core.initialize() || {})
InitialState(core) == fromJS(OrEmptyObject(initialize(core)))

\* core.react(state, type, payload): the new sub-state, or Thrown
react(core, s, type, payload) ==
  CASE core.react = "totals" ->
         (CASE type = "SET" -> Map(payload)
            [] type = "INCREMENT" /\ s.k = "map" ->
                 Map(((IF s.n = Empty THEN 0 ELSE s.n) + payload) % 3)
            [] OTHER -> s)
    [] core.react = "sum" ->
         (IF type = "INCREMENT" THEN JsAdd(s, payload) ELSE s)
    [] core.react = "fragile" ->
         (IF type = "BOOM" THEN Thrown ELSE s)
    [] core.react = "chatty" -> s
    [] core.react = "sloppy" ->
         (IF type = "SET" THEN Map(payload) ELSE Undefined)

\* `core instanceof ReactorCore`
IsReactorCore(core) == core.cls = "ReactorCore"

(***************************************************************************)
(* Messages and batches.                                                   *)
(***************************************************************************)
Types == {"SET", "INCREMENT", "BOOM"}
\* every type with payload 1, and INCREMENT with every payload
Messages == {m \in [type : Types, payload : Payloads] :
               m.type = "INCREMENT" \/ m.payload = 1}

RECURSIVE SeqsUpTo(_, _)
SeqsUpTo(S, n) ==
  IF n = 0 THEN {<<>>}
  ELSE LET shorter == SeqsUpTo(S, n - 1)
       IN shorter \cup {Append(s, x) : s \in {t \in shorter : Len(t) = n - 1}, x \in S}

\* what a caller hands to cycle: an array of messages or one lone message
Inputs ==
  [arr : {TRUE}, items : SeqsUpTo(Messages, MaxBatch)]
    \cup [arr : {FALSE}, item : Messages]

\* utils.coerceArray: an array is kept, a lone message becomes a
\* one-element array
coerceArray(input) == IF input.arr THEN input.items ELSE <<input.item>>

\* messages.pop() in the place of shift: the last message is taken
pop(msgs) == [taken |-> msgs[Len(msgs)], rest |-> SubSeq(msgs, 1, Len(msgs) - 1)]

\* messages.shift(): the first message is removed and returned
shift(msgs) == [taken |-> Head(msgs), rest |-> Tail(msgs)]

\* a loop that stops while one message is left
MoreMessagesButOne(msgs) == Len(msgs) > 1

\* the loop condition messages.length > 0
MoreMessages(msgs) == Len(msgs) > 0

(***************************************************************************)
(* The state tree (an Immutable.Map keyed by id) and the registry (a plain *)
(* object keyed by id).                                                    *)
(***************************************************************************)
Ids == {"a", "1"}
\* the ids that are canonical array indices, with their numeric value
ArrayIndex == [i \in {"1"} |-> 1]

\* Immutable.Map#get: undefined for a missing key
get(tree, id) == IF id \in DOMAIN tree THEN tree[id] ELSE Undefined

\* a set that keeps nothing but the new entry
setAlone(tree, id, v) == [j \in {id} |-> v]

\* a set that leaves an entry that is there as it is
setIfAbsent(tree, id, v) ==
  [j \in (DOMAIN tree) \cup {id} |-> IF j \in DOMAIN tree THEN tree[j] ELSE v]

\* Immutable.Map#set: the tree with the entry at id replaced
set(tree, id, v) == [j \in (DOMAIN tree) \cup {id} |-> IF j = id THEN v ELSE tree[j]]

\* the registry is a sequence of [id, core] entries in creation order
Lookup(cores, id) ==
  IF \E i \in 1..Len(cores) : cores[i].id = id
  THEN (CHOOSE e \in {cores[i] : i \in 1..Len(cores)} : e.id = id).core
  ELSE Undefined

\* a test that never finds the id
IsRegisteredNever(cores, id) == FALSE

\* the test `this.reactorCores[id]` of attachCore
IsRegistered(cores, id) == Lookup(cores, id) # Undefined

\* this.reactorCores[id] = core, for an id that is not a key yet
Put(cores, id, core) == Append(cores, [id |-> id, core |-> core])

\* `delete this.reactorCores.id`: the property named "id" is deleted
DeleteLiteral(cores, id) == cores

\* delete this.reactorCores[id]
Delete(cores, id) == SelectSeq(cores, LAMBDA e : e.id # id)

RegisteredIds(cores) == {cores[i].id : i \in 1..Len(cores)}

\* Property order of a plain object: the array-index keys first, in
\* ascending numeric order, then the other keys in creation order
RECURSIVE SortByIndex(_)
SortByIndex(ks) ==
  IF ks = {} THEN <<>>
  ELSE LET least == CHOOSE x \in ks : \A y \in ks : ArrayIndex[x] <= ArrayIndex[y]
       IN <<least>> \o SortByIndex(ks \ {least})

OwnKeys(cores) ==
  LET ids == [i \in 1..Len(cores) |-> cores[i].id]
  IN SortByIndex({ids[i] : i \in 1..Len(ids)} \cap DOMAIN ArrayIndex)
       \o SelectSeq(ids, LAMBDA x : x \notin DOMAIN ArrayIndex)

\* utils.each over the registry: the keys in property order
each(cores) == OwnKeys(cores)

\* a write that emits the value twice
writeTwice(stream, v) == Append(Append(stream, v), v)

\* a write that emits nothing
writeDropped(stream, v) == stream

\* through#write on the output stream: the value is emitted once
write(stream, v) == Append(stream, v)

\* the updates made before the exception stay in this.state
AfterThrowPartial(old, inProgress) == inProgress

\* the tree left in this.state when the mutation scope raises: the
\* assignment of line 77 never happens
AfterThrow(old, inProgress) == old

(***************************************************************************)
(* The store.                                                              *)
(*   state, reactorCores, outputStream : the fields of the Reactor, the    *)
(*       output stream being the sequence of values written to it          *)
(*   shared : the positions of outputStream whose value is the very        *)
(*       object this.state refers to                                       *)
(*   pc, messages, message, todo, draft : the cycle in flight: its         *)
(*       position, the messages left, the message being applied, the ids   *)
(*       `each` has still to visit and the tree inside the mutation scope  *)
(*   nCycles : how many times cycle was called                             *)
(*   batch, calls, pre : the batch the cycle in flight was handed, the     *)
(*       react invocations it has made so far and this.state as it was     *)
(*       when the cycle was called                                         *)
(*   lastOp : the last call made on the store and how it ended             *)
(*   stack : the calls of cycle that are suspended, the outermost first,   *)
(*       each waiting for a write to the input stream made from inside a   *)
(*       react or a listener to return                                     *)
(*   received : the listeners on the output stream, in the order they      *)
(*       subscribed, each with the positions of outputStream it was        *)
(*       handed so far                                                     *)
(*   emit : the value the output stream is emitting (its position in       *)
(*       outputStream) and the listener to be called next                  *)
(***************************************************************************)
VARIABLES state, reactorCores, outputStream, shared,
          pc, messages, message, todo, draft,
          nCycles, batch, calls, pre, lastOp,
          stack, received, emit

vars == <<state, reactorCores, outputStream, shared, pc, messages, message,
          todo, draft, nCycles, batch, calls, pre, lastOp, stack, received,
          emit>>

locals == <<messages, message, todo, draft>>

EmptyTree == [j \in {} |-> Undefined]
NoMessage == [type |-> "-", payload |-> 0]
NoCore == [cls |-> "-", init |-> Undefined, react |-> "-"]
NoEmit == [n |-> 0, to |-> 0]

\* the record of a call: what was called, with which id and core, the
\* error it raised ("none": it returned, "pending": it is running), how
\* often it called initialize, the length of its batch, how often it
\* called react, whether the tree in the mutation
\* scope differed from the tree the cycle began with, and the number of values
\* the output stream had seen when it began
Op(op, id, core, err, inits, len) ==
  [op |-> op, id |-> id, core |-> core, err |-> err, inits |-> inits,
   len |-> len, reacts |-> 0, dirty |-> FALSE, out |-> Len(outputStream)]

\* constructor
Init ==
  /\ state = EmptyTree
  /\ reactorCores = <<>>
  /\ outputStream = <<>>
  /\ shared = {}
  /\ pc = "idle"
  /\ messages = <<>>
  /\ message = NoMessage
  /\ todo = <<>>
  /\ draft = EmptyTree
  /\ nCycles = 0
  /\ batch = <<>>
  /\ calls = <<>>
  /\ pre = EmptyTree
  /\ lastOp = [op |-> "new", id |-> "-", core |-> NoCore, err |-> "none",
               inits |-> 0, len |-> 0, reacts |-> 0, dirty |-> FALSE,
               out |-> 0]
  /\ stack = <<>>
  /\ received = <<>>
  /\ emit = NoEmit

\* the new tree is written into the object this.state refers to: the
\* values handed out earlier that are this object change with it
publishedInPlace(stream, same, new) ==
  [i \in 1..Len(stream) |-> IF i \in same THEN new ELSE stream[i]]

\* the values written to the output stream so far, after `this.state =`
\* is given a new tree: Map#set and the mutation scope return another
\* object, and the objects handed out earlier are not written to
published(stream, same, new) == stream

\* the positions of the output stream that hold the object this.state
\* refers to, after `this.state =` is given a tree
sharedAfter(same, old, new) == IF new = old THEN same ELSE {}

\* attachCore(id, core)
attachCore(id, core) ==
  /\ pc = "idle"
  /\ IF IsRegistered(reactorCores, id)
     THEN /\ lastOp' = Op("attachCore", id, core, "Error", 0, 0)
          /\ UNCHANGED <<state, reactorCores, outputStream, shared>>
     ELSE IF ~IsReactorCore(core)
     THEN \* `new Core()`: no binding named Core exists
          /\ lastOp' = Op("attachCore", id, core, "ReferenceError", 0, 0)
          /\ UNCHANGED <<state, reactorCores, outputStream, shared>>
     ELSE /\ state' = set(state, id, InitialState(core))
          /\ outputStream' = published(outputStream, shared, state')
          /\ shared' = {}
          /\ reactorCores' = Put(reactorCores, id, core)
          /\ lastOp' = Op("attachCore", id, core, "none", 1, 0)
  /\ UNCHANGED <<pc, locals, nCycles, batch, calls, pre, stack, received,
                 emit>>

\* unattachCore(id)
unattachCore(id) ==
  /\ pc = "idle"
  /\ reactorCores' = Delete(reactorCores, id)
  /\ lastOp' = Op("unattachCore", id, NoCore, "none", 0, 0)
  /\ UNCHANGED <<state, outputStream, shared, pc, locals, nCycles, batch,
                 calls, pre, stack, received, emit>>

\* the tree the mutation scope works on: mutate of immutable-helpers
\* hands the callback a builder holding the entries of this.state, and
\* this.state itself is not changed through it
Scope(tree) == tree

\* cycle is entered: its locals are set up and the mutation scope opened
Enter(input) ==
  /\ nCycles' = nCycles + 1
  /\ batch' = coerceArray(input)
  /\ calls' = <<>>
  /\ pre' = state
  /\ lastOp' = Op("cycle", "-", NoCore, "pending", 0, Len(coerceArray(input)))
  /\ messages' = coerceArray(input)
  /\ draft' = Scope(state)
  /\ message' = NoMessage
  /\ todo' = <<>>
  /\ pc' = "while"
  /\ emit' = NoEmit

\* cycle(messages), up to the entry of the mutation scope
cycleBegin(input) ==
  /\ pc = "idle"
  /\ nCycles < MaxCycles
  /\ Enter(input)
  /\ UNCHANGED <<state, reactorCores, outputStream, shared, stack, received>>

\* var message = messages.shift(), and `each` starts over the registry
cycleShift ==
  /\ pc = "while"
  /\ MoreMessages(messages)
  /\ message' = shift(messages).taken
  /\ messages' = shift(messages).rest
  /\ todo' = each(reactorCores)
  /\ pc' = IF each(reactorCores) = <<>> THEN "while" ELSE "each"
  /\ UNCHANGED <<state, reactorCores, outputStream, shared, draft, nCycles,
                 batch, calls, pre, lastOp, stack, received, emit>>

\* cycle is left: its locals are gone, and the call of cycle that was
\* suspended last, if there is one, goes on where it was (or is handed
\* the exception)
Return(err, reacts) ==
  IF stack = <<>>
  THEN /\ lastOp' = [lastOp EXCEPT !.err = err, !.reacts = reacts,
                                   !.dirty = (draft # pre)]
       /\ pc' = "idle"
       /\ messages' = <<>>
       /\ message' = NoMessage
       /\ todo' = <<>>
       /\ draft' = EmptyTree
       /\ batch' = <<>>
       /\ calls' = <<>>
       /\ pre' = EmptyTree
       /\ emit' = NoEmit
       /\ stack' = stack
  ELSE LET caller == stack[Len(stack)]
       IN /\ lastOp' = IF err = "none" THEN caller.lastOp
                       ELSE [caller.lastOp EXCEPT !.err = err]
          /\ pc' = IF err = "none" THEN caller.pc
                   ELSE IF caller.pc = "resumed" THEN "raiseReact"
                   ELSE "raiseEmit"
          /\ messages' = caller.messages
          /\ message' = caller.message
          /\ todo' = caller.todo
          /\ draft' = caller.draft
          /\ batch' = caller.batch
          /\ calls' = caller.calls
          /\ pre' = caller.pre
          /\ emit' = caller.emit
          /\ stack' = SubSeq(stack, 1, Len(stack) - 1)

\* the cycle ends by an exception: nothing is assigned, nothing written
Abort(err, reacts) ==
  /\ state' = AfterThrow(state, draft)
  /\ Return(err, reacts)
  /\ UNCHANGED <<reactorCores, outputStream, shared, nCycles, received>>

\* the core is handed the entry of another id when the tree has one
SubStateOther(tree, id) ==
  IF DOMAIN tree \ {id} = {} THEN get(tree, id)
  ELSE tree[CHOOSE j \in DOMAIN tree \ {id} : TRUE]

\* the sub-state handed to the core with this id
SubState(tree, id) == get(tree, id)

\* the value is written at another id
TargetKeyOther(id) == CHOOSE j \in Ids : j # id

\* the key the value returned by the core with this id is written at
TargetKey(id) == id

\* the body of `each`: one core reacts to the message.  A react that
\* writes to the input stream first has done so when pc = "resumed".
cycleReact ==
  /\ LET id == Head(todo)
         core == Lookup(reactorCores, id)
         cur == SubState(draft, id)
     IN /\ \/ pc = "resumed"
           \/ pc = "each" /\ ~(HasAsImmutable(cur) /\ Dispatches(core, message))
        /\ IF ~HasAsImmutable(cur)
           THEN \* state.get(id).asImmutable is not a function
                Abort("TypeError", Len(calls))
           ELSE LET reactorState == asImmutable(cur)
                    newState == react(core, reactorState, message.type, message.payload)
                    call == [id |-> id, core |-> core, arg |-> reactorState,
                             msg |-> message, ret |-> newState]
                IN IF newState = Thrown
                   THEN Abort("CoreError", Len(calls) + 1)
                   ELSE /\ calls' = Append(calls, call)
                        /\ draft' = set(draft, TargetKey(id), newState)
                        /\ todo' = Tail(todo)
                        /\ pc' = IF Tail(todo) = <<>> THEN "while" ELSE "each"
                        /\ UNCHANGED <<state, reactorCores, outputStream,
                                       shared, messages, message, nCycles,
                                       batch, pre, lastOp, stack, received,
                                       emit>>

\* the mutation scope returns: this.state = mutate(...)
cycleCommit ==
  /\ pc = "while"
  /\ ~MoreMessages(messages)
  /\ state' = draft
  /\ outputStream' = published(outputStream, shared, draft)
  /\ shared' = sharedAfter(shared, state, draft)
  /\ pc' = "write"
  /\ UNCHANGED <<reactorCores, locals, nCycles, batch, calls, pre, lastOp,
                 stack, received, emit>>

\* this.outputStream.write(this.state) with no listener on the stream,
\* and cycle returns
cycleWrite ==
  /\ pc = "write"
  /\ received = <<>>
  /\ outputStream' = write(outputStream, state)
  /\ shared' = shared \cup {Len(outputStream) + 1}
  /\ Return("none", Len(calls))
  /\ UNCHANGED <<state, reactorCores, nCycles, received>>

Next ==
  \/ \E id \in Ids, core \in Cores : attachCore(id, core)
  \/ \E id \in Ids : unattachCore(id)
  \/ \E input \in Inputs : cycleBegin(input)
  \/ cycleShift
  \/ cycleReact
  \/ cycleCommit
  \/ cycleWrite

Spec == Init /\ [][Next]_vars

(***************************************************************************)
(* The store with listeners on its output stream and with writes to its    *)
(* input stream made while a cycle runs.  Both streams are `through`       *)
(* streams: write calls the stream's function before it returns, so the    *)
(* input stream calls cycle inside the write, and the output stream calls  *)
(* its listeners one after the other, in the order they subscribed.        *)
(***************************************************************************)
\* most listeners on the output stream
MaxListeners == 2

NestedCores == {Totals, Chatty, Sloppy}
NestedMessages == {[type |-> "PING", payload |-> 1], Dispatched}
NestedInputs ==
  [arr : {TRUE}, items : SeqsUpTo(NestedMessages, MaxBatch)]
    \cup [arr : {FALSE}, item : NestedMessages]

\* a listener either only takes the values, or answers the first value it
\* is handed by writing the message FollowUp to the input stream
Kinds == {"listener", "responder"}
FollowUp == [type |-> "INCREMENT", payload |-> 1]
Responds(sub) == sub.kind = "responder" /\ sub.got = <<>>

\* reactor.outputStream.on('data', listener)
subscribe(kind) ==
  /\ pc = "idle"
  /\ Len(received) < MaxListeners
  /\ received' = Append(received, [kind |-> kind, got |-> <<>>])
  /\ UNCHANGED <<state, reactorCores, outputStream, shared, pc, locals,
                 nCycles, batch, calls, pre, lastOp, stack, emit>>

\* the call of cycle in flight is suspended at `at`: the function that
\* through wraps around cycle is called again before it has returned
Suspend(at, em) ==
  stack' = Append(stack, [pc |-> at, messages |-> messages,
                          message |-> message, todo |-> todo,
                          draft |-> draft, batch |-> batch, calls |-> calls,
                          pre |-> pre, lastOp |-> lastOp, emit |-> em])

\* a react writes to the input stream: cycle is entered anew, from the
\* tree this.state holds, while the cycle that called the react waits
reactDispatch ==
  /\ pc = "each"
  /\ HasAsImmutable(SubState(draft, Head(todo)))
  /\ Dispatches(Lookup(reactorCores, Head(todo)), message)
  /\ Suspend("resumed", emit)
  /\ Enter([arr |-> FALSE, item |-> Dispatched])
  /\ UNCHANGED <<state, reactorCores, outputStream, shared, received>>

\* the cycle entered by a react's write was left by an exception: the
\* write raises it inside the react, and the waiting cycle is left by it
reactRaise ==
  /\ pc = "raiseReact"
  /\ Abort(lastOp.err, Len(calls) + 1)

\* this.outputStream.write(this.state) with listeners on the stream: the
\* value is taken and the first listener is about to be called
cyclePublish ==
  /\ pc = "write"
  /\ received # <<>>
  /\ outputStream' = write(outputStream, state)
  /\ shared' = shared \cup {Len(outputStream) + 1}
  /\ emit' = [n |-> Len(outputStream) + 1, to |-> 1]
  /\ pc' = "emit"
  /\ UNCHANGED <<state, reactorCores, locals, nCycles, batch, calls, pre,
                 lastOp, stack, received>>

\* the next listener is handed the value and returns
deliver ==
  /\ pc = "emit"
  /\ emit.to <= Len(received)
  /\ ~Responds(received[emit.to])
  /\ received' = [received EXCEPT ![emit.to].got = Append(@, emit.n)]
  /\ emit' = [emit EXCEPT !.to = @ + 1]
  /\ UNCHANGED <<state, reactorCores, outputStream, shared, pc, locals,
                 nCycles, batch, calls, pre, lastOp, stack>>

\* the next listener is handed the value and writes to the input stream
\* before it returns: cycle is entered anew while the emit waits
deliverRespond ==
  /\ pc = "emit"
  /\ emit.to <= Len(received)
  /\ Responds(received[emit.to])
  /\ received' = [received EXCEPT ![emit.to].got = Append(@, emit.n)]
  /\ Suspend("emit", [emit EXCEPT !.to = @ + 1])
  /\ Enter([arr |-> FALSE, item |-> FollowUp])
  /\ UNCHANGED <<state, reactorCores, outputStream, shared>>

\* the cycle entered by a listener's write was left by an exception: it
\* leaves the listener, the emit and the cycle that was writing, after
\* that cycle's assignment to this.state
emitRaise ==
  /\ pc = "raiseEmit"
  /\ Return(lastOp.err, Len(calls))
  /\ UNCHANGED <<state, reactorCores, outputStream, shared, nCycles,
                 received>>

\* every listener was called: write returns, and cycle with it
emitEnd ==
  /\ pc = "emit"
  /\ emit.to > Len(received)
  /\ Return("none", Len(calls))
  /\ UNCHANGED <<state, reactorCores, outputStream, shared, nCycles,
                 received>>

NextReentrant ==
  \/ \E id \in Ids, core \in NestedCores : attachCore(id, core)
  \/ \E id \in Ids : unattachCore(id)
  \/ \E kind \in Kinds : subscribe(kind)
  \/ \E input \in NestedInputs : cycleBegin(input)
  \/ cycleShift
  \/ cycleReact
  \/ reactDispatch
  \/ reactRaise
  \/ cycleCommit
  \/ cycleWrite
  \/ cyclePublish
  \/ deliver
  \/ deliverRespond
  \/ emitRaise
  \/ emitEnd

SpecReentrant == Init /\ [][NextReentrant]_vars

(***************************************************************************)
(* Properties.                                                             *)
(***************************************************************************)
Inc(n) == [type |-> "INCREMENT", payload |-> n]

\* a step in which cycle returns normally / is left by an exception
CycleReturns == pc = "write" /\ pc' = "idle"
CycleRaises == pc = "each" /\ pc' = "idle"

\* the left fold of one core's react over a sequence of messages
RECURSIVE FoldReact(_, _, _)
FoldReact(core, s, msgs) ==
  IF msgs = <<>> THEN s
  ELSE FoldReact(core, react(core, s, Head(msgs).type, Head(msgs).payload),
                 Tail(msgs))

\* the registry without the entry of id
Without(cores, id) ==
  LET keep == {i \in 1..Len(cores) : cores[i].id # id}
      nth[k \in 0..Len(cores)] ==
        IF k = 0 THEN <<>>
        ELSE IF k \in keep THEN Append(nth[k - 1], cores[k]) ELSE nth[k - 1]
  IN nth[Len(cores)]

\* C1: when cycle(batch) returns, the state at every registered id is the
\* left fold of that core's react over the batch, in submission order,
\* from the sub-state the id had when cycle was called; and the reacts
\* were invoked message by message: the k-th block of invocations, one
\* per registered core, all carry the k-th message of the batch.
C1_CycleIsFold ==
  [][CycleReturns =>
       /\ \A i \in 1..Len(reactorCores') :
            get(state', reactorCores'[i].id)
              = FoldReact(reactorCores'[i].core,
                          get(pre, reactorCores'[i].id), batch)
       /\ Len(calls) = Len(batch) * Len(reactorCores)
       /\ \A k \in 1..Len(calls) :
            calls[k].msg = batch[((k - 1) \div Len(reactorCores)) + 1]
    ]_vars

\* two messages were folded through two cores and changed the tree
C1_Witness ==
  /\ pc = "idle" /\ lastOp.op = "cycle" /\ lastOp.err = "none"
  /\ lastOp.len = 2 /\ lastOp.reacts = 4 /\ lastOp.dirty

\* C2: a cycle writes nothing to the output stream while it runs, and one
\* that returns normally has written exactly one value, whatever the
\* length of its batch: the tree it left in this.state.
C2_OneSnapshotPerCycle ==
  /\ pc # "idle" => Len(outputStream) = lastOp.out
  /\ (pc = "idle" /\ lastOp.op = "cycle" /\ lastOp.err = "none") =>
       /\ Len(outputStream) = lastOp.out + 1
       /\ outputStream[Len(outputStream)] = state
  /\ Len(outputStream) <= nCycles

\* a cycle over a batch of several messages has returned
C2_Witness ==
  /\ pc = "idle" /\ lastOp.op = "cycle" /\ lastOp.err = "none"
  /\ lastOp.len >= 2 /\ lastOp.reacts >= 2 /\ lastOp.dirty
  /\ Len(outputStream) = 1

\* C3: a cycle left by an exception raised in a react (or in the read of
\* a sub-state) leaves this.state at its value from before the cycle,
\* whatever earlier invocations returned, and writes no snapshot; the
\* error reaches the caller.
C3_AllOrNothing ==
  [][CycleRaises =>
       /\ lastOp'.err \in {"CoreError", "TypeError"}
       /\ state' = pre
       /\ state = pre
       /\ outputStream' = outputStream
       /\ Len(outputStream') = lastOp'.out
    ]_vars

\* a react raised after earlier invocations had changed the tree in the
\* mutation scope
C3_Witness ==
  /\ pc = "idle" /\ lastOp.op = "cycle" /\ lastOp.err = "CoreError"
  /\ lastOp.reacts >= 2 /\ lastOp.dirty

\* C4: attachCore on an id that is registered raises an error and leaves
\* the registry and the state tree as they are, without calling the new
\* core's initialize; and no id is ever registered twice.
C4_DoubleAttach ==
  /\ [](\A i, j \in 1..Len(reactorCores) :
          reactorCores[i].id = reactorCores[j].id => i = j)
  /\ [][(lastOp'.op = "attachCore" /\ lastOp' # lastOp
           /\ lastOp'.id \in RegisteredIds(reactorCores)) =>
          /\ lastOp'.err = "Error"
          /\ lastOp'.inits = 0
          /\ reactorCores' = reactorCores
          /\ state' = state
          /\ outputStream' = outputStream
       ]_vars

\* core B was refused at an id held by another core A whose sub-state is
\* not the one B would have been given
C4_Witness ==
  /\ lastOp.op = "attachCore" /\ lastOp.err = "Error"
  /\ IsReactorCore(lastOp.core)
  /\ Lookup(reactorCores, lastOp.id) # lastOp.core
  /\ get(state, lastOp.id) # InitialState(lastOp.core)

\* C5: an invocation of react made for id is handed the entry of the tree
\* in the mutation scope at id, and what it returns is written at id
\* only: every other entry of that tree, and this.state, stay as they are.
C5_Isolation ==
  [][(pc = "each" /\ Len(calls') = Len(calls) + 1) =>
       LET id == Head(todo)
           call == calls'[Len(calls')]
       IN /\ call.id = id
          /\ call.core = Lookup(reactorCores, id)
          /\ call.arg = get(draft, id)
          /\ DOMAIN draft' = DOMAIN draft \cup {id}
          /\ draft'[id] = call.ret
          /\ \A j \in DOMAIN draft' \ {id} : draft'[j] = draft[j]
          /\ state' = state
    ]_vars

\* two cores have both changed their sub-state for the same message
C5_Witness ==
  /\ Len(calls) >= 2
  /\ calls[1].id # calls[2].id
  /\ calls[1].msg = calls[2].msg
  /\ calls[1].ret # calls[1].arg
  /\ calls[2].ret # calls[2].arg
  /\ calls[1].arg # calls[2].arg

\* C6: unattachCore(id) takes id out of the registry, raises nothing and
\* leaves the state tree and the output stream alone, registered or not;
\* and a cycle never invokes a core for an id that is not registered nor
\* touches that id's entry, in this.state or in the mutation scope.
C6_UnattachFrame ==
  [][/\ (lastOp'.op = "unattachCore" /\ lastOp' # lastOp) =>
          /\ reactorCores' = Without(reactorCores, lastOp'.id)
          /\ lastOp'.err = "none"
          /\ state' = state
          /\ outputStream' = outputStream
     /\ lastOp'.op = "cycle" =>
          \A id \in Ids \ RegisteredIds(reactorCores) :
            /\ get(state', id) = get(state, id)
            /\ (id \in DOMAIN state') = (id \in DOMAIN state)
            /\ pc # "idle" => get(draft, id) = get(pre, id)
            /\ \A k \in 1..Len(calls') : calls'[k].id # id
    ]_vars

\* a cycle that invoked a registered core has returned while the entry of
\* a detached id was in the tree
C6_Witness ==
  /\ pc = "idle" /\ lastOp.op = "cycle" /\ lastOp.err = "none"
  /\ lastOp.reacts >= 1 /\ lastOp.dirty
  /\ \E id \in DOMAIN state : id \notin RegisteredIds(reactorCores)

\* C7: with the counter core (initialize() -> 0, react -> state + n)
\* registered at id with the sub-state attachCore gave it, the cycle over
\* [INCREMENT 1, INCREMENT 2] returns normally, get(id) is then 3 and one
\* snapshot has been written.
C7_ScalarCounter ==
  [][\A id \in Ids :
       (/\ pc # "idle" /\ pc' = "idle"
        /\ batch = <<Inc(1), Inc(2)>>
        /\ Lookup(reactorCores, id) = Counter
        /\ get(pre, id) = InitialState(Counter)) =>
         /\ lastOp'.err = "none"
         /\ toJS(get(state', id)) = Num(0 + 1 + 2)
         /\ Len(outputStream') = lastOp'.out + 1
    ]_vars

\* C8: a successful attachCore(id, core) calls initialize once, stores the
\* persistent form of its result at id, or an empty mapping when there is
\* no result, registers the core at id and leaves the other entries alone.
C8_AttachStoresInitialState ==
  [][(lastOp'.op = "attachCore" /\ lastOp' # lastOp /\ lastOp'.err = "none") =>
       LET id == lastOp'.id
           result == initialize(lastOp'.core)
       IN /\ lastOp'.inits = 1
          /\ state'[id] = IF result = Undefined THEN Map(Empty) ELSE fromJS(result)
          /\ Lookup(reactorCores', id) = lastOp'.core
          /\ \A j \in DOMAIN state' \ {id} : j \in DOMAIN state /\ state'[j] = state[j]
    ]_vars

\* C9: attachCore(id, v) with id not registered and v not an instance of
\* ReactorCore raises nothing: an instance of ReactorCore is registered at
\* id and the state tree has an entry at id.
C9_TolerantConstruction ==
  [][(/\ lastOp'.op = "attachCore" /\ lastOp' # lastOp
      /\ ~IsReactorCore(lastOp'.core)
      /\ lastOp'.id \notin RegisteredIds(reactorCores)) =>
        /\ lastOp'.err = "none"
        /\ lastOp'.id \in RegisteredIds(reactorCores')
        /\ IsReactorCore(Lookup(reactorCores', lastOp'.id))
        /\ lastOp'.id \in DOMAIN state'
    ]_vars

\* C10: a cycle over the empty batch returns normally, invokes no react,
\* leaves in this.state a tree equal to the one it found and writes that
\* tree to the output stream once, whatever the registry holds.
C10_EmptyBatch ==
  [][(pc # "idle" /\ pc' = "idle" /\ batch = <<>>) =>
       /\ lastOp'.err = "none"
       /\ lastOp'.reacts = 0
       /\ state' = pre
       /\ outputStream' = Append(outputStream, pre)
    ]_vars

\* the empty batch was cycled with two cores registered and a tree that
\* is not empty
C10_Witness ==
  /\ pc = "idle" /\ lastOp.op = "cycle" /\ lastOp.err = "none"
  /\ lastOp.len = 0
  /\ Len(reactorCores) = 2
  /\ DOMAIN state # {}
  /\ outputStream = <<state>>

\* C11: with no core in the registry (none was ever attached, or all were
\* detached and left their entries in the tree), cycle(batch) takes every
\* message of the batch, invokes nothing, leaves this.state as it found
\* it and writes that tree to the output stream once.
C11_EmptyRegistry ==
  [][(CycleReturns /\ reactorCores = <<>>) =>
       /\ messages = <<>>
       /\ lastOp'.err = "none"
       /\ lastOp'.reacts = 0
       /\ state' = pre
       /\ state = pre
       /\ outputStream' = Append(outputStream, pre)
    ]_vars

\* a batch of two messages was cycled after every core had been detached
C11_Witness ==
  /\ pc = "idle" /\ lastOp.op = "cycle" /\ lastOp.err = "none"
  /\ lastOp.len = 2 /\ lastOp.reacts = 0
  /\ reactorCores = <<>>
  /\ DOMAIN state = Ids
  /\ outputStream = <<state>>

\* C12: when cycle is left, the entry of a registered core whose react
\* returns the sub-state it is handed for every message of the batch is
\* the entry the cycle found, whatever the other registered cores
\* returned.
C12_IdentityCore ==
  [][(pc # "idle" /\ pc' = "idle") =>
       \A i \in 1..Len(reactorCores) :
         LET id == reactorCores[i].id
             core == reactorCores[i].core
             old == get(pre, id)
         IN (\A k \in 1..Len(batch) :
               react(core, old, batch[k].type, batch[k].payload) = old) =>
              /\ get(state', id) = old
              /\ (id \in DOMAIN state') = (id \in DOMAIN pre)
    ]_vars

\* a cycle over two messages is about to return: one core gave back what
\* it was handed both times, the other changed its sub-state both times
C12_Witness ==
  /\ pc = "write" /\ Len(batch) = 2 /\ Len(calls) = 4
  /\ calls[1].ret = calls[1].arg /\ calls[3].ret = calls[3].arg
  /\ calls[2].ret # calls[2].arg /\ calls[4].ret # calls[4].arg
  /\ calls[1].id = calls[3].id /\ calls[2].id = calls[4].id
  /\ state # pre

\* C17: with attachCore and unattachCore only called while no cycle is in
\* flight, every id in the registry has an entry in the state tree (and
\* in the tree of the mutation scope) in every reachable state, and no
\* step takes a key out of the state tree.
C17_KeysOnlyGrow ==
  /\ [](RegisteredIds(reactorCores) \subseteq DOMAIN state)
  /\ [](pc # "idle" => RegisteredIds(reactorCores) \subseteq DOMAIN draft)
  /\ [][DOMAIN state \subseteq DOMAIN state']_vars

\* a cycle has changed the tree with one core registered while the tree
\* holds the entry of a core that was detached
C17_Witness ==
  /\ pc = "idle" /\ lastOp.op = "cycle" /\ lastOp.err = "none"
  /\ lastOp.reacts >= 1 /\ lastOp.dirty
  /\ Len(reactorCores) = 1
  /\ DOMAIN state = Ids

\* C18: attachCore(id, C) on an id that was detached, with C an instance
\* of ReactorCore, raises nothing, registers C and puts the sub-state
\* made from C.initialize() at id in place of the entry the earlier core
\* left there; and the first invocation of C's react is handed that
\* sub-state, not the one left behind.
C18_ReattachOverwrites ==
  [][/\ (/\ lastOp'.op = "attachCore" /\ lastOp' # lastOp
         /\ IsReactorCore(lastOp'.core)
         /\ lastOp'.id \in DOMAIN state
         /\ lastOp'.id \notin RegisteredIds(reactorCores)) =>
          /\ lastOp'.err = "none"
          /\ lastOp'.inits = 1
          /\ Lookup(reactorCores', lastOp'.id) = lastOp'.core
          /\ state'[lastOp'.id] = InitialState(lastOp'.core)
          /\ \A j \in DOMAIN state \ {lastOp'.id} : state'[j] = state[j]
     /\ (/\ lastOp.op = "attachCore" /\ lastOp.err = "none"
         /\ lastOp'.op = "cycle") =>
          /\ get(state', lastOp.id) = InitialState(lastOp.core)
          /\ get(draft', lastOp.id) = InitialState(lastOp.core)
    ]_vars

\* a core was attached at an id whose published sub-state, accumulated by
\* the core registered there before, is not the one the new core starts
\* with
C18_Witness ==
  /\ lastOp.op = "attachCore" /\ lastOp.err = "none"
  /\ Len(outputStream) = 1
  /\ lastOp.id \in DOMAIN outputStream[1]
  /\ outputStream[1][lastOp.id] # InitialState(lastOp.core)
  /\ outputStream[1][lastOp.id] # Map(Empty)
  /\ state[lastOp.id] = InitialState(lastOp.core)

\* C16: for every message of every cycle, `each` visits the registered
\* ids in the order in which their cores were attached (a core attached
\* again counting from its latest attachCore), also when an id looks like
\* an integer: the visiting order is the registry's insertion order.
C16_InsertionOrder ==
  [][(pc = "while" /\ pc' = "each") =>
       todo' = [i \in 1..Len(reactorCores) |-> reactorCores[i].id]
    ]_vars

InFlight == Len(stack) + (IF pc = "idle" THEN 0 ELSE 1)

\* C14: cycles are serialized.  At most one call of cycle is in flight at
\* any time: a write to the input stream made while a cycle runs (from
\* inside a react, say) starts no cycle before the running one has
\* assigned its tree and written it; so when a cycle assigns its tree,
\* this.state is still the tree the cycle began with, and no tree put
\* there by a cycle that began later is overwritten.
C14_Serialized ==
  /\ [](InFlight <= 1)
  /\ [][(pc = "while" /\ pc' = "write") => state = pre]_vars

\* C15: when the tree in the mutation scope holds no value (undefined) at
\* the id of a registered core at the moment a message is applied to it,
\* for instance because its react returned nothing for the message
\* before, cycle still invokes the core's react, with undefined as the
\* sub-state, and does not fail before the call.
C15_AbsentSubStateIsPassed ==
  [][(pc = "each" /\ get(draft, Head(todo)) = Undefined) =>
       /\ lastOp'.err # "TypeError"
       /\ Len(calls') = Len(calls) + 1
       /\ calls'[Len(calls')].id = Head(todo)
       /\ calls'[Len(calls')].arg = Undefined
    ]_vars

\* C19: every listener on the output stream is handed the snapshots in
\* the order in which they were written (the order of the assignments to
\* this.state), also when a listener answers a snapshot by writing a
\* message to the input stream: no listener is handed an older snapshot
\* after a newer one, and when a write to the input stream has returned
\* with nothing left in flight, the last snapshot every listener was
\* handed is the tree this.state holds.
C19_CommitOrderDelivery ==
  /\ [](\A s \in 1..Len(received) :
          \A i, j \in 1..Len(received[s].got) :
            i < j => received[s].got[i] < received[s].got[j])
  /\ [][(pc # "idle" /\ pc' = "idle" /\ lastOp'.err = "none") =>
          \A s \in 1..Len(received') :
            /\ received'[s].got # <<>>
            /\ outputStream'[received'[s].got[Len(received'[s].got)]] = state'
       ]_vars

====
